---- MODULE Spec2Model ----
(***************************************************************************)
(* Model of api/app.py: the conversational subscription manager           *)
(* (process_message) and the scheduled digest mailer (cron_send_digests). *)
(*                                                                         *)
(* Python strings that the code inspects character by character (urls,    *)
(* source texts, messages, send_time) are sequences of one-character      *)
(* strings.  Timezone names and e-mail addresses are only ever looked up  *)
(* whole, so they are TLA+ strings.                                        *)
(***************************************************************************)
EXTENDS Integers, Sequences, FiniteSets, TLC

----------------------------------------------------------------------------
(* Characters and the str methods the code uses                            *)

Lowers == <<"a","b","c","d","e","f","g","h","i","j","k","l","m",
            "n","o","p","q","r","s","t","u","v","w","x","y","z">>

Uppers == <<"A","B","C","D","E","F","G","H","I","J","K","L","M",
            "N","O","P","Q","R","S","T","U","V","W","X","Y","Z">>

Digits == <<"0","1","2","3","4","5","6","7","8","9">>

LowerSet == {Lowers[i] : i \in 1..26}

UpperSet == {Uppers[i] : i \in 1..26}

DigitSet == {Digits[i] : i \in 1..10}

IsLower(c) == c \in LowerSet

IsUpper(c) == c \in UpperSet

IsDigit(c) == c \in DigitSet

\* \s of the regular expressions
IsSpace(c) == c \in {" ", "\t", "\n"}

\* \w of the regular expressions
IsWordChar(c) == IsLower(c) \/ IsUpper(c) \/ IsDigit(c) \/ c = "_"

\* the lower-case letter of each upper-case letter, and the reverse
ToLower == [c \in UpperSet |-> Lowers[CHOOSE i \in 1..26 : Uppers[i] = c]]

ToUpper == [c \in LowerSet |-> Uppers[CHOOSE i \in 1..26 : Lowers[i] = c]]

LowerChar(c) == IF IsUpper(c) THEN ToLower[c] ELSE c

UpperChar(c) == IF IsLower(c) THEN ToUpper[c] ELSE c

\* str.lower()
Lower(s) == [i \in 1..Len(s) |-> LowerChar(s[i])]

\* str.capitalize(): first character upper-cased, the rest lower-cased
Capitalize(s) == [i \in 1..Len(s) |-> IF i = 1 THEN UpperChar(s[i]) ELSE LowerChar(s[i])]

\* s[i:] starts with p (i is 1-based)
StartsWithAt(s, p, i) == /\ i + Len(p) - 1 <= Len(s)
                         /\ SubSeq(s, i, i + Len(p) - 1) = p

EndsWith(s, p) == /\ Len(p) <= Len(s)
                  /\ SubSeq(s, Len(s) - Len(p) + 1, Len(s)) = p

\* Python's `sub in s`
Contains(sub, s) == \E i \in 1..(Len(s) - Len(sub) + 1) : StartsWithAt(s, sub, i)

\* str.strip()
RECURSIVE LStrip(_)
LStrip(s) == IF s # <<>> /\ IsSpace(Head(s)) THEN LStrip(Tail(s)) ELSE s

RECURSIVE RStrip(_)
RStrip(s) == IF s # <<>> /\ IsSpace(s[Len(s)]) THEN RStrip(SubSeq(s, 1, Len(s) - 1)) ELSE s

Strip(s) == RStrip(LStrip(s))

\* str.replace(' ', '')
RemoveSpaces(s) == SelectSeq(s, LAMBDA c : c # " ")

----------------------------------------------------------------------------
(* The regular expression https?://[^\s]+                                  *)

SchemeHttps == <<"h","t","t","p","s",":","/","/">>

SchemeHttp == <<"h","t","t","p",":","/","/">>

\* length of the scheme matched at i, 0 when none
SchemeLenAt(s, i) == IF StartsWithAt(s, SchemeHttps, i) THEN 8
                     ELSE IF StartsWithAt(s, SchemeHttp, i) THEN 7
                     ELSE 0

\* the pattern matches at i: a scheme and at least one non-space character
UrlMatchAt(s, i) == LET n == SchemeLenAt(s, i)
                    IN  n > 0 /\ i + n <= Len(s) /\ ~IsSpace(s[i + n])

\* last index of the run of non-space characters that starts at i
RECURSIVE NonSpaceEnd(_, _)
NonSpaceEnd(s, i) == IF i < Len(s) /\ ~IsSpace(s[i + 1]) THEN NonSpaceEnd(s, i + 1) ELSE i

\* re.search(r'https?://[^\s]+', s): the leftmost match, greedy
UrlSearch(s) ==
    IF \E i \in 1..Len(s) : UrlMatchAt(s, i)
    THEN LET i == CHOOSE k \in 1..Len(s) :
                      UrlMatchAt(s, k) /\ \A j \in 1..(k - 1) : ~UrlMatchAt(s, j)
         IN  [found |-> TRUE, url |-> SubSeq(s, i, NonSpaceEnd(s, i))]
    ELSE [found |-> FALSE, url |-> <<>>]

----------------------------------------------------------------------------
(* extract_site_name_from_url                                              *)

\* index of the first character of s[i:] that is in stops, Len(s)+1 when none
RECURSIVE FindStop(_, _, _)
FindStop(s, i, stops) == IF i > Len(s) \/ s[i] \in stops THEN i
                         ELSE FindStop(s, i + 1, stops)

\* index of the first character after "scheme:", for a url UrlSearch returned
AfterScheme(url) == FindStop(url, 1, {":"}) + 1

\* urlparse(url).netloc: what follows "//" up to the next "/", "?" or "#"
Netloc(url) == LET a == AfterScheme(url)
               IN  IF StartsWithAt(url, <<"/","/">>, a)
                   THEN SubSeq(url, a + 2, FindStop(url, a + 2, {"/", "?", "#"}) - 1)
                   ELSE <<>>

\* urlparse(url).path: what follows the netloc up to the next "?" or "#"
UrlPath(url) == LET a == AfterScheme(url)
                    b == IF StartsWithAt(url, <<"/","/">>, a)
                         THEN FindStop(url, a + 2, {"/", "?", "#"})
                         ELSE a
                IN  SubSeq(url, b, FindStop(url, b, {"?", "#"}) - 1)

KnownTlds == << <<"c","o","m">>, <<"o","r","g">>, <<"n","e","t">>, <<"i","o">>,
                <<"c","o">>, <<"d","e","v">>, <<"a","i">> >>

\* re.sub(r'^www\.', '', domain)
StripWww(domain) == IF StartsWithAt(domain, <<"w","w","w",".">>, 1)
                    THEN SubSeq(domain, 5, Len(domain))
                    ELSE domain

\* re.sub(r'\.(com|org|net|io|co|dev|ai)$', '', domain)
StripTld(domain) ==
    IF \E k \in 1..Len(KnownTlds) : EndsWith(domain, <<".">> \o KnownTlds[k])
    THEN LET k == CHOOSE n \in 1..Len(KnownTlds) : EndsWith(domain, <<".">> \o KnownTlds[n])
         IN  SubSeq(domain, 1, Len(domain) - Len(KnownTlds[k]) - 1)
    ELSE domain

extract_site_name_from_url(url) ==
    LET domain == IF Netloc(url) # <<>> THEN Netloc(url) ELSE UrlPath(url)
    IN  Capitalize(StripTld(StripWww(domain)))

----------------------------------------------------------------------------
(* parse_url_from_text                                                     *)

\* the alternatives of \b(add|remove|website|site|www|com|https?://)\b, in
\* the order the regular expression tries them
StopWords == << <<"a","d","d">>, <<"r","e","m","o","v","e">>,
                <<"w","e","b","s","i","t","e">>, <<"s","i","t","e">>,
                <<"w","w","w">>, <<"c","o","m">>, SchemeHttps, SchemeHttp >>

\* \b holds just before position i (i in 1..Len(s)+1)
WordBoundary(s, i) == (i > 1 /\ IsWordChar(s[i - 1])) # (i <= Len(s) /\ IsWordChar(s[i]))

StopWordAt(s, i, k) == /\ WordBoundary(s, i)
                       /\ StartsWithAt(s, StopWords[k], i)
                       /\ WordBoundary(s, i + Len(StopWords[k]))

\* length of the stop word the pattern matches at i, 0 when it does not match
StopLenAt(s, i) ==
    IF \E k \in 1..Len(StopWords) : StopWordAt(s, i, k)
    THEN Len(StopWords[CHOOSE k \in 1..Len(StopWords) :
                 StopWordAt(s, i, k) /\ \A j \in 1..(k - 1) : ~StopWordAt(s, i, j)])
    ELSE 0

\* re.sub(pattern, '', s) from position i on: every non-overlapping match,
\* left to right, is deleted
RECURSIVE SubStopWords(_, _)
SubStopWords(s, i) ==
    IF i > Len(s) THEN <<>>
    ELSE IF StopLenAt(s, i) > 0 THEN SubStopWords(s, i + StopLenAt(s, i))
    ELSE <<s[i]>> \o SubStopWords(s, i + 1)

\* common_sites, in the dict's insertion order
common_sites == <<
    <<<<"t","e","c","h","c","r","u","n","c","h">>,
      <<"h","t","t","p","s",":","/","/","t","e","c","h","c","r","u","n","c","h",".","c","o","m">>>>,
    <<<<"v","e","r","g","e">>,
      <<"h","t","t","p","s",":","/","/","t","h","e","v","e","r","g","e",".","c","o","m">>>>,
    <<<<"w","i","r","e","d">>,
      <<"h","t","t","p","s",":","/","/","w","i","r","e","d",".","c","o","m">>>>,
    <<<<"a","r","s"," ","t","e","c","h","n","i","c","a">>,
      <<"h","t","t","p","s",":","/","/","a","r","s","t","e","c","h","n","i","c","a",".","c","o","m">>>>,
    <<<<"h","a","c","k","e","r"," ","n","e","w","s">>,
      <<"h","t","t","p","s",":","/","/","n","e","w","s",".","y","c","o","m","b","i","n","a","t","o","r",".","c","o","m">>>>,
    <<<<"r","e","d","d","i","t">>,
      <<"h","t","t","p","s",":","/","/","r","e","d","d","i","t",".","c","o","m">>>>,
    <<<<"m","e","d","i","u","m">>,
      <<"h","t","t","p","s",":","/","/","m","e","d","i","u","m",".","c","o","m">>>>,
    <<<<"d","e","v",".","t","o">>,
      <<"h","t","t","p","s",":","/","/","d","e","v",".","t","o">>>>,
    <<<<"g","i","t","h","u","b">>,
      <<"h","t","t","p","s",":","/","/","g","i","t","h","u","b",".","c","o","m","/","t","r","e","n","d","i","n","g">>>>,
    <<<<"p","r","o","d","u","c","t"," ","h","u","n","t">>,
      <<"h","t","t","p","s",":","/","/","p","r","o","d","u","c","t","h","u","n","t",".","c","o","m">>>>,
    <<<<"i","n","d","i","e"," ","h","a","c","k","e","r","s">>,
      <<"h","t","t","p","s",":","/","/","i","n","d","i","e","h","a","c","k","e","r","s",".","c","o","m">>>> >>

\* parse_url_from_text trying the table of known sites before the test for
\* a dot
parse_url_from_text_table_first(text) ==
    LET url_match == UrlSearch(text)
        stripped  == Strip(SubStopWords(Strip(Lower(text)), 1))
        hit(k)    == Contains(common_sites[k][1], stripped)
    IN  IF url_match.found THEN url_match
        ELSE IF \E k \in 1..Len(common_sites) : hit(k)
             THEN [found |-> TRUE,
                   url |-> common_sites[CHOOSE k \in 1..Len(common_sites) :
                               hit(k) /\ \A j \in 1..(k - 1) : ~hit(j)][2]]
        ELSE IF Contains(<<".">>, stripped)
             THEN [found |-> TRUE, url |-> SchemeHttps \o stripped]
        ELSE IF stripped # <<>>
             THEN [found |-> TRUE,
                   url |-> SchemeHttps \o RemoveSpaces(stripped) \o <<".","c","o","m">>]
        ELSE [found |-> FALSE, url |-> <<>>]

\* Optional[str]: found = FALSE is None
parse_url_from_text(text) ==
    LET url_match == UrlSearch(text)
        stripped  == Strip(SubStopWords(Strip(Lower(text)), 1))
        hit(k)    == Contains(common_sites[k][1], stripped)
    IN  IF url_match.found THEN url_match
        ELSE IF Contains(<<".">>, stripped)
             THEN [found |-> TRUE, url |-> SchemeHttps \o stripped]
        ELSE IF \E k \in 1..Len(common_sites) : hit(k)
             THEN [found |-> TRUE,
                   url |-> common_sites[CHOOSE k \in 1..Len(common_sites) :
                               hit(k) /\ \A j \in 1..(k - 1) : ~hit(j)][2]]
        ELSE IF stripped # <<>>
             THEN [found |-> TRUE,
                   url |-> SchemeHttps \o RemoveSpaces(stripped) \o <<".","c","o","m">>]
        ELSE [found |-> FALSE, url |-> <<>>]

----------------------------------------------------------------------------
(* Values of the model                                                     *)

T0800 == <<"0","8",":","0","0">>

T1703 == <<"1","7",":","0","3">>

\* a time the resolver did not normalise
T9am == <<"9","a","m">>

\* the first-match urls of three messages: the first two differ only in case,
\* the third has a www. prefix and a path
U1 == <<"h","t","t","p",":","/","/","a",".","i","o">>

U2 == <<"h","t","t","p",":","/","/","A",".","i","o">>

U3 == <<"h","t","t","p",":","/","/","w","w","w",".","b",".","c","o","/","a">>

Urls == {U1, U2, U3}

\* raw messages: one without a url literal, the others echoing a url
MsgPlain == <<"o","k">>

MsgWith(u) == <<"o","k"," ">> \o u \o <<" ","y","e","s">>

\* the timezone database pytz resolves names against: name -> UTC offset in
\* minutes at the instants of the model
TzDatabase == [n \in {"America/Los_Angeles", "Asia/Kolkata"} |->
                  IF n = "America/Los_Angeles" THEN 0 - 480 ELSE 330]

\* pytz.timezone(name): raises UnknownTimeZoneError (ok = FALSE) for a name
\* the database does not have
pytz_timezone(name) == IF name \in DOMAIN TzDatabase
                       THEN [ok |-> TRUE, offset |-> TzDatabase[name]]
                       ELSE [ok |-> FALSE, offset |-> 0]

\* EmailStr._validate(email) does not raise
ValidEmail(email) == email \in {"a@x.io", "b@x.io", "c@x.io"}

\* UserData(email=email): the defaults of the model class
UserData(email) == [email |-> email, sources |-> <<>>,
                    timezone |-> "America/Los_Angeles", send_time |-> T0800]

----------------------------------------------------------------------------
(* The users dict: Python dicts and the JSON file keep insertion order, so *)
(* it is a sequence of (key, val) items with distinct keys                 *)

HasKey(users, email) == \E i \in 1..Len(users) : users[i].key = email

IndexOfKey(users, email) == CHOOSE i \in 1..Len(users) : users[i].key = email

\* users[email]
GetItem(users, email) == users[IndexOfKey(users, email)].val

\* users[email] = val: an existing key keeps its place, a new key goes last
SetItem(users, email, val) ==
    IF HasKey(users, email)
    THEN [users EXCEPT ![IndexOfKey(users, email)].val = val]
    ELSE Append(users, [key |-> email, val |-> val])

\* del users[email]
DelItem(users, email) == SelectSeq(users, LAMBDA item : item.key # email)

\* pop(i) of a list, i 0-based as in the code
Pop(list, i) == SubSeq(list, 1, i) \o SubSeq(list, i + 2, Len(list))

----------------------------------------------------------------------------
(* process_message: each branch maps the loaded users dict to the file     *)
(* content it leaves, the response it returns and its save_users calls     *)

\* a response: its kind stands for the fixed wording, the other fields are
\* the values formatted into it
Reply(kind, text, time, tz) == [kind |-> kind, text |-> text, time |-> time, tz |-> tz]

\* the handler returned without a return statement: the body is null
NoResponse == Reply("none", <<>>, <<>>, "")

\* an exception left the handler: HTTP 500, no response body of the program
ServerError == Reply("error", <<>>, <<>>, "")

\* a branch that returns without calling save_users
Unsaved(users, response) == [file |-> users, response |-> response, saves |-> 0]

\* the save writing the sender's record alone instead of the whole dict
Saved_alone(users, email, user_data, response) ==
    [file |-> <<[key |-> email, val |-> user_data]>>, response |-> response, saves |-> 1]

\* users[email] = user_data.model_dump(); save_users(users); return response
Saved(users, email, user_data, response) ==
    [file |-> SetItem(users, email, user_data), response |-> response, saves |-> 1]

\* the intent's fields: source is "missing" (no key), "null" or "text";
\* time = <<>> and timezone = "" stand for a missing, null or empty field,
\* which `if time_str` / `if timezone` do not tell apart
SourceField(state, text) == [state |-> state, text |-> text]

\* the new-user branch returning the welcome without the save_users call
new_user_unsaved(users, email) ==
    IF ~ValidEmail(email)
    THEN Unsaved(users, Reply("invalid_email", <<>>, <<>>, ""))
    ELSE Unsaved(users, Reply("welcome", <<>>, <<>>, ""))

new_user(users, email) ==
    IF ~ValidEmail(email)
    THEN Unsaved(users, Reply("invalid_email", <<>>, <<>>, ""))
    ELSE Saved(users, email, UserData(email), Reply("welcome", <<>>, <<>>, ""))

\* add_source appending the resolved url to a record and saving, without
\* waiting for the confirmation
add_source_direct(users, intent_data, message) ==
    IF intent_data.source.state = "null"
    THEN Unsaved(users, ServerError)
    ELSE LET source_text == IF intent_data.source.state = "missing"
                            THEN message ELSE intent_data.source.text
             url == parse_url_from_text(source_text)
         IN  IF url.found
             THEN Saved(users, users[1].key,
                        [users[1].val EXCEPT !.sources =
                            Append(@, [name |-> extract_site_name_from_url(url.url),
                                       url |-> url.url])],
                        Reply("confirm_url", url.url, <<>>, ""))
             ELSE Unsaved(users, Reply("could_not_parse", <<>>, <<>>, ""))

add_source(users, intent_data, message) ==
    IF intent_data.source.state = "null"
    THEN Unsaved(users, ServerError)       \* url_pattern.search(None): TypeError
    ELSE LET source_text == IF intent_data.source.state = "missing"
                            THEN message ELSE intent_data.source.text
             url == parse_url_from_text(source_text)
         IN  IF url.found
             THEN Unsaved(users, Reply("confirm_url", url.url, <<>>, ""))
             ELSE Unsaved(users, Reply("could_not_parse", <<>>, <<>>, ""))

\* the duplicate check reading the wrong key: s["name"] == url
ExistingByName(sources, url) == \E i \in 1..Len(sources) : sources[i].name = url

\* any(s["url"] == url for s in user_data.sources)
Existing(sources, url) == \E i \in 1..Len(sources) : sources[i].url = url

\* confirm_add_source resolving the message as add_source does, instead of
\* searching it for a url literal
confirm_add_source_resolving(users, email, user_data, message) ==
    LET url_match == parse_url_from_text(message)
        url       == url_match.url
        name      == extract_site_name_from_url(url)
    IN  IF url_match.found
        THEN IF ~Existing(user_data.sources, url)
             THEN Saved(users, email,
                        [user_data EXCEPT !.sources = Append(@, [name |-> name, url |-> url])],
                        Reply("added", name, <<>>, ""))
             ELSE Unsaved(users, Reply("already_have", name, <<>>, ""))
        ELSE Unsaved(users, Reply("no_url", <<>>, <<>>, ""))

\* confirm_add_source writing the record back also when the url is already
\* in the list
confirm_add_source_resave(users, email, user_data, message) ==
    LET url_match == UrlSearch(message)
        url       == url_match.url
        name      == extract_site_name_from_url(url)
    IN  IF url_match.found
        THEN IF ~Existing(user_data.sources, url)
             THEN Saved(users, email,
                        [user_data EXCEPT !.sources = Append(@, [name |-> name, url |-> url])],
                        Reply("added", name, <<>>, ""))
             ELSE Saved(users, email, user_data, Reply("already_have", name, <<>>, ""))
        ELSE Unsaved(users, Reply("no_url", <<>>, <<>>, ""))

confirm_add_source(users, email, user_data, message) ==
    LET url_match == UrlSearch(message)
        url       == url_match.url
        name      == extract_site_name_from_url(url)
    IN  IF url_match.found
        THEN IF ~Existing(user_data.sources, url)
             THEN Saved(users, email,
                        [user_data EXCEPT !.sources = Append(@, [name |-> name, url |-> url])],
                        Reply("added", name, <<>>, ""))
             ELSE Unsaved(users, Reply("already_have", name, <<>>, ""))
        ELSE Unsaved(users, Reply("no_url", <<>>, <<>>, ""))

\* source_text in source["name"].lower() or source_text in source["url"].lower()
SourceMatches(source_text, source) ==
    \/ Contains(source_text, Lower(source.name))
    \/ Contains(source_text, Lower(source.url))

\* the loop keeping the last entry that matches instead of returning at the
\* first
LastMatch(sources, source_text) ==
    IF \E i \in 1..Len(sources) : SourceMatches(source_text, sources[i])
    THEN CHOOSE i \in 1..Len(sources) :
             /\ SourceMatches(source_text, sources[i])
             /\ \A j \in (i + 1)..Len(sources) : ~SourceMatches(source_text, sources[j])
    ELSE 0

\* index (1-based) of the entry the for loop stops at, 0 when it runs out
FirstMatch(sources, source_text) ==
    IF \E i \in 1..Len(sources) : SourceMatches(source_text, sources[i])
    THEN CHOOSE i \in 1..Len(sources) :
             /\ SourceMatches(source_text, sources[i])
             /\ \A j \in 1..(i - 1) : ~SourceMatches(source_text, sources[j])
    ELSE 0

remove_source(users, email, user_data, intent_data) ==
    IF intent_data.source.state = "null"
    THEN Unsaved(users, ServerError)       \* None.lower(): AttributeError
    ELSE LET source_text == IF intent_data.source.state = "missing"
                            THEN <<>> ELSE Lower(intent_data.source.text)
             i == FirstMatch(user_data.sources, source_text)
         IN  IF i > 0
             THEN Saved(users, email,
                        [user_data EXCEPT !.sources = Pop(@, i - 1)],
                        Reply("removed", user_data.sources[i].name, <<>>, ""))
             ELSE Unsaved(users, Reply("not_found", <<>>, <<>>, ""))

change_time(users, email, user_data, intent_data) ==
    LET time_str == intent_data.time
    IN  IF time_str # <<>>
        THEN Saved(users, email, [user_data EXCEPT !.send_time = time_str],
                   Reply("changed_time", <<>>, time_str, ""))
        ELSE Unsaved(users, Reply("need_time", <<>>, <<>>, ""))

\* set_timezone without the pytz.timezone call
set_timezone_unvalidated(users, email, user_data, intent_data) ==
    LET timezone == intent_data.timezone
    IN  IF timezone # ""
        THEN Saved(users, email, [user_data EXCEPT !.timezone = timezone],
                   Reply("set_timezone", <<>>, <<>>, timezone))
        ELSE Unsaved(users, NoResponse)

set_timezone(users, email, user_data, intent_data) ==
    LET timezone == intent_data.timezone
    IN  IF timezone # ""
        THEN IF pytz_timezone(timezone).ok
             THEN Saved(users, email, [user_data EXCEPT !.timezone = timezone],
                        Reply("set_timezone", <<>>, <<>>, timezone))
             ELSE Unsaved(users, Reply("invalid_timezone", <<>>, <<>>, ""))
        ELSE Unsaved(users, NoResponse)    \* falls off the end of the if chain

\* set_time_and_timezone assigning and saving send_time before the timezone
\* is validated
set_time_and_timezone_early(users, email, user_data, intent_data) ==
    LET time_str == intent_data.time
        timezone == intent_data.timezone
    IN  IF time_str # <<>> /\ timezone # ""
        THEN IF pytz_timezone(timezone).ok
             THEN Saved(users, email,
                        [user_data EXCEPT !.send_time = time_str, !.timezone = timezone],
                        Reply("set_both", <<>>, time_str, timezone))
             ELSE Saved(users, email, [user_data EXCEPT !.send_time = time_str],
                        Reply("invalid_timezone_both", <<>>, <<>>, ""))
        ELSE Unsaved(users, Reply("need_both", <<>>, <<>>, ""))

set_time_and_timezone(users, email, user_data, intent_data) ==
    LET time_str == intent_data.time
        timezone == intent_data.timezone
    IN  IF time_str # <<>> /\ timezone # ""
        THEN IF pytz_timezone(timezone).ok
             THEN Saved(users, email,
                        [user_data EXCEPT !.send_time = time_str, !.timezone = timezone],
                        Reply("set_both", <<>>, time_str, timezone))
             ELSE Unsaved(users, Reply("invalid_timezone_both", <<>>, <<>>, ""))
        ELSE Unsaved(users, Reply("need_both", <<>>, <<>>, ""))

\* ", ".join([s["name"] for s in sources])
RECURSIVE JoinNames(_)
JoinNames(sources) ==
    IF sources = <<>> THEN <<>>
    ELSE IF Len(sources) = 1 THEN sources[1].name
    ELSE sources[1].name \o <<",", " ">> \o JoinNames(Tail(sources))

view_sources(users, user_data) ==
    IF user_data.sources # <<>>
    THEN Unsaved(users, Reply("sources", JoinNames(user_data.sources),
                              user_data.send_time, user_data.timezone))
    ELSE Unsaved(users, Reply("no_sources", <<>>, user_data.send_time, user_data.timezone))

\* unsubscribe saving the dict without the del
unsubscribe_keep(users, email) ==
    [file |-> users,
     response |-> Reply("unsubscribed", <<>>, <<>>, ""), saves |-> 1]

unsubscribe(users, email) ==
    [file |-> DelItem(users, email),
     response |-> Reply("unsubscribed", <<>>, <<>>, ""), saves |-> 1]

\* users is what load_users() returned
process_message(users, email, intent_data, message) ==
    IF ~HasKey(users, email) THEN new_user(users, email)
    ELSE LET intent    == intent_data.intent
             user_data == GetItem(users, email)
         IN  CASE intent = "add_source" -> add_source(users, intent_data, message)
               [] intent = "confirm_add_source" ->
                      confirm_add_source(users, email, user_data, message)
               [] intent = "remove_source" ->
                      remove_source(users, email, user_data, intent_data)
               [] intent = "change_time" -> change_time(users, email, user_data, intent_data)
               [] intent = "set_timezone" -> set_timezone(users, email, user_data, intent_data)
               [] intent = "set_time_and_timezone" ->
                      set_time_and_timezone(users, email, user_data, intent_data)
               [] intent = "view_sources" -> view_sources(users, user_data)
               [] intent = "done" -> Unsaved(users, Reply("done", <<>>, <<>>, ""))
               [] intent = "unsubscribe" -> unsubscribe(users, email)
               [] OTHER -> Unsaved(users, Reply("help", <<>>, <<>>, ""))

----------------------------------------------------------------------------
(* cron_send_digests and what it calls                                     *)

\* str.split(sep) for a one-character separator
RECURSIVE Split(_, _)
Split(s, sep) ==
    LET i == FindStop(s, 1, {sep})
    IN  IF i > Len(s) THEN <<s>>
        ELSE <<SubSeq(s, 1, i - 1)>> \o Split(SubSeq(s, i + 1, Len(s)), sep)

DigitValue(c) == (CHOOSE i \in 1..10 : Digits[i] = c) - 1

\* int(s) does not raise ValueError (strings of the model carry no sign,
\* blank or underscore)
IntOk(s) == s # <<>> /\ \A i \in 1..Len(s) : IsDigit(s[i])

\* int(s)
RECURSIVE IntValue(_)
IntValue(s) == IF s = <<>> THEN 0
               ELSE 10 * IntValue(SubSeq(s, 1, Len(s) - 1)) + DigitValue(s[Len(s)])

\* send_hour, send_minute = map(int, send_time.split(':')): ok = FALSE when
\* the unpacking or an int() raises ValueError
ParseSendTime(send_time) ==
    LET parts == Split(send_time, ":")
    IN  IF Len(parts) = 2 /\ IntOk(parts[1]) /\ IntOk(parts[2])
        THEN [ok |-> TRUE, hour |-> IntValue(parts[1]), minute |-> IntValue(parts[2])]
        ELSE [ok |-> FALSE, hour |-> 0, minute |-> 0]

\* current_utc.astimezone(user_tz): the instant is a minute of the UTC day
LocalTime(utc, offset) == LET m == (utc + offset) % 1440
                          IN  [hour |-> m \div 60, minute |-> m % 60]

\* the due test comparing the hour only
IsSendTimeHourOnly(user_time, parsed) == user_time.hour = parsed.hour

\* the test of the if statement, for a record whose send_time parsed
IsSendTime(user_time, parsed) ==
    user_time.hour = parsed.hour /\ user_time.minute = parsed.minute

default_sources == <<
    [name |-> <<"M","e","d","i","u","m"," ","A","I">>,
     url |-> <<"h","t","t","p","s",":","/","/","m","e","d","i","u","m",".","c","o","m","/",
               "t","a","g","/","a","r","t","i","f","i","c","i","a","l","-",
               "i","n","t","e","l","l","i","g","e","n","c","e">>],
    [name |-> <<"T","e","c","h","C","r","u","n","c","h">>,
     url |-> <<"h","t","t","p","s",":","/","/","t","e","c","h","c","r","u","n","c","h",".","c","o","m">>] >>

\* scrape_content: the items of one source (one item stands for the list the
\* model returns), [] when the scraper or the model raised
scrape_content(source_dict, scrape_ok) == IF scrape_ok THEN <<source_dict.url>> ELSE <<>>

RECURSIVE ScrapeAll(_, _)
ScrapeAll(sources, scrape_ok) ==
    IF sources = <<>> THEN <<>>
    ELSE scrape_content(Head(sources), scrape_ok) \o ScrapeAll(Tail(sources), scrape_ok)

\* create_digest: raised = TRUE when the completion call raises; items is the
\* number of content items handed to the composer
create_digest(user_data, scrape_ok, compose_ok) ==
    LET sources_to_scrape == IF user_data.sources # <<>> THEN user_data.sources
                             ELSE default_sources
        all_content == ScrapeAll(sources_to_scrape, scrape_ok)
    IN  [raised |-> ~compose_ok, items |-> Len(all_content)]

\* send_digest: catches what resend raises, so it always returns; the result
\* tells whether the mail went out
send_digest(send_ok) == [raised |-> FALSE, delivered |-> send_ok]

\* one iteration of the for loop over users.items(), for the item `item`, at
\* the instant `utc`, with the collaborators behaving as env says.
\* crashed = TRUE when an exception leaves the loop.
TickUser(item, utc, count, env) ==
    LET user_data == item.val
        user_tz   == pytz_timezone(user_data.timezone)
        user_time == LocalTime(utc, user_tz.offset)
        parsed    == ParseSendTime(user_data.send_time)
        skipped   == [email |-> item.key, due |-> FALSE, composed |-> FALSE,
                      delivered |-> FALSE, counted |-> FALSE, items |-> 0]
    IN  IF ~user_tz.ok \/ ~parsed.ok
        THEN [crashed |-> TRUE, count |-> count, result |-> skipped]
        ELSE IF IsSendTime(user_time, parsed)
        THEN LET content == create_digest(user_data, env.scrape_ok, env.compose_ok)
                 sent    == send_digest(env.send_ok)
             IN  IF content.raised
                 THEN [crashed |-> FALSE, count |-> count,
                       result |-> [skipped EXCEPT !.due = TRUE]]
                 ELSE [crashed |-> FALSE, count |-> count + 1,
                       result |-> [email |-> item.key, due |-> TRUE, composed |-> TRUE,
                                   delivered |-> sent.delivered, counted |-> TRUE,
                                   items |-> content.items]]
        ELSE [crashed |-> FALSE, count |-> count, result |-> skipped]

----------------------------------------------------------------------------
(* Requests the model submits                                              *)

Intent(kind, source, time, timezone) ==
    [intent |-> kind, source |-> source, time |-> time, timezone |-> timezone]

SrcMissing == SourceField("missing", <<>>)

SrcNull == SourceField("null", <<>>)

\* source texts: one matching two of the urls, one in upper case matching the
\* third, one that is only a stop word and matches nothing
SourceFields == {SrcMissing, SrcNull, SourceField("text", <<"i","o">>),
                 SourceField("text", <<"B">>), SourceField("text", <<"a","d","d">>)}

TimeFields == {<<>>, T0800, T1703, T9am}

ZoneFields == {"", "America/Los_Angeles", "Asia/Kolkata", "Mars/Phobos"}

Messages == {MsgPlain} \cup {MsgWith(u) : u \in Urls}

Request(intent_data, message) == [intent_data |-> intent_data, message |-> message]

\* every intent kind with every value of the fields its branch reads (the
\* add_source branch reads the message only when the source key is missing)
Requests ==
    {Request(Intent("add_source", SrcMissing, <<>>, ""), m) : m \in Messages}
    \cup {Request(Intent("add_source", s, <<>>, ""), MsgPlain) : s \in SourceFields}
    \cup {Request(Intent("confirm_add_source", SrcMissing, <<>>, ""), m) : m \in Messages}
    \cup {Request(Intent("remove_source", s, <<>>, ""), MsgPlain) : s \in SourceFields}
    \cup {Request(Intent("change_time", SrcMissing, t, ""), MsgPlain) : t \in TimeFields}
    \cup {Request(Intent("set_timezone", SrcMissing, <<>>, z), MsgPlain) : z \in ZoneFields}
    \cup {Request(Intent("set_time_and_timezone", SrcMissing, t, z), MsgPlain) :
             t \in TimeFields, z \in ZoneFields}
    \cup {Request(Intent(k, SrcMissing, <<>>, ""), MsgPlain) :
             k \in {"view_sources", "done", "unsubscribe", "help", "chitchat"}}

\* one subscriber and an address the validator rejects
Emails == {"a@x.io", "nobody"}

\* the requests made between scheduler runs
CronRequests ==
    {Request(Intent("change_time", SrcMissing, t, ""), MsgPlain) : t \in {T0800, T9am}}
    \cup {Request(Intent("set_timezone", SrcMissing, <<>>, "Asia/Kolkata"), MsgPlain)}

CronEmails == {"a@x.io", "b@x.io", "c@x.io"}

\* words of the texts handed to parse_url_from_text: two names of the table
\* (the second comes first in a text, the first comes first in the table), a
\* domain, a stop word in capitals, a url literal and the two halves of a
\* table name of two words
WTechcrunch == <<"t","e","c","h","c","r","u","n","c","h">>

WVerge == <<"v","e","r","g","e">>

WExampleOrg == <<"e","x","a","m","p","l","e",".","o","r","g">>

WAdd == <<"A","d","d">>

WHacker == <<"h","a","c","k","e","r">>

WNews == <<"n","e","w","s">>

Words == {WTechcrunch, WVerge, WExampleOrg, WAdd, WHacker, WNews, U1}

\* the texts: empty, one word, two words separated by a space
ResolveTexts == {<<>>} \cup Words \cup {v \o <<" ">> \o w : v \in Words, w \in Words}

\* add_source requests carrying each text as the source
ResolveRequests ==
    {Request(Intent("add_source", SourceField("text", t), <<>>, ""), MsgPlain) :
         t \in ResolveTexts}

\* every address the model sends from
Addresses == Emails \cup CronEmails

\* how far from 08:00 in Los Angeles (16:00 UTC) the scheduler's instants lie
Drift == 1

\* instants of the scheduler, minutes of the UTC day: around 08:00 in Los
\* Angeles, 08:30 there (the hour alone matches), and 08:00 in Kolkata
Instants == {960 + d : d \in (0 - Drift)..Drift} \cup {990, 150}

\* what the collaborators do during one digest
Envs == [scrape_ok : BOOLEAN, compose_ok : BOOLEAN, send_ok : BOOLEAN]

----------------------------------------------------------------------------
(* State                                                                   *)

VARIABLES
    data_file,    \* the content of users.json: the users dict
    req,          \* the latest submit-message request: email, intent, message
    before,       \* data_file when that request was loaded
    response,     \* what process_message returned for it
    saves,        \* how many times it called save_users
    unsubscribed, \* the addresses an unsubscribe deleted the record of and
                  \* that have sent at most one message since
    pc,           \* cron_send_digests: "idle", "loop", "done" or "crashed"
    users,        \* its local users, loaded once
    current_utc,  \* its local current_utc
    idx,          \* position of its for loop in users.items(), 1-based
    sent_count,   \* its local sent_count
    results,      \* per item the loop has been through, what happened
    earlier       \* what the run before did, when this one was invoked within
                  \* the same minute

msgvars == <<data_file, req, before, response, saves, unsubscribed>>

cronvars == <<pc, users, current_utc, idx, sent_count, results, earlier>>

vars == <<data_file, req, before, response, saves, unsubscribed,
          pc, users, current_utc, idx, sent_count, results, earlier>>

NoRequest == [email |-> "", intent_data |-> Intent("", SrcMissing, <<>>, ""),
              message |-> <<>>]

\* no run came before within the minute
NoRun == [ran |-> FALSE, utc |-> 0, users |-> <<>>, results |-> <<>>]

\* users.json does not exist: load_users() returns {}
Init == /\ data_file = <<>>
        /\ req = NoRequest
        /\ before = <<>>
        /\ response = NoResponse
        /\ saves = 0
        /\ unsubscribed = {}
        /\ pc = "idle"
        /\ users = <<>>
        /\ current_utc = 0
        /\ idx = 1
        /\ sent_count = 0
        /\ results = <<>>
        /\ earlier = NoRun

\* history of the unsubscribe branch: an address joins when its record is
\* deleted, stays through its next message and leaves with the one after
Departed(loaded, email, intent) ==
    IF HasKey(loaded, email)
    THEN IF intent = "unsubscribe" THEN unsubscribed \cup {email}
         ELSE unsubscribed \ {email}
    ELSE unsubscribed

\* POST /api/process: the handler has no await, so it runs from load_users
\* to its return in one step
Handle(email, r) ==
    LET out == process_message(data_file, email, r.intent_data, r.message)
    IN  /\ data_file' = out.file
        /\ response' = out.response
        /\ saves' = out.saves
        /\ req' = [email |-> email, intent_data |-> r.intent_data, message |-> r.message]
        /\ before' = data_file
        /\ unsubscribed' = Departed(data_file, email, r.intent_data.intent)
        /\ UNCHANGED cronvars

ProcessMessage(emails, requests) == \E email \in emails, r \in requests : Handle(email, r)

\* GET /api/cron/send-digests, up to the for loop
CronStart == /\ pc = "idle"
             /\ users' = data_file
             /\ \E utc \in Instants : current_utc' = utc
             /\ sent_count' = 0
             /\ idx' = 1
             /\ results' = <<>>
             /\ pc' = "loop"
             /\ UNCHANGED earlier
             /\ UNCHANGED msgvars

\* the iteration reading the address's record from users.json again instead
\* of taking it from the dict loaded at the start
CronUser_reload ==
    /\ pc = "loop"
    /\ idx <= Len(users)
    /\ \E env \in Envs :
          LET item == IF HasKey(data_file, users[idx].key)
                      THEN [key |-> users[idx].key,
                            val |-> GetItem(data_file, users[idx].key)]
                      ELSE users[idx]
              out  == TickUser(item, current_utc, sent_count, env)
          IN  /\ pc' = IF out.crashed THEN "crashed" ELSE "loop"
              /\ sent_count' = out.count
              /\ results' = IF out.crashed THEN results
                            ELSE Append(results, out.result)
    /\ idx' = idx + 1
    /\ UNCHANGED <<users, current_utc, earlier>>
    /\ UNCHANGED msgvars

\* the loop skipping an address the run before has already sent to
CronUser_once ==
    /\ pc = "loop"
    /\ idx <= Len(users)
    /\ \E env \in Envs :
          LET sent_before == \E k \in 1..Len(earlier.results) :
                                 /\ earlier.results[k].email = users[idx].key
                                 /\ earlier.results[k].counted
              out  == TickUser(users[idx], current_utc, sent_count, env)
              skip == [email |-> users[idx].key, due |-> FALSE, composed |-> FALSE,
                       delivered |-> FALSE, counted |-> FALSE, items |-> 0]
          IN  /\ pc' = IF out.crashed THEN "crashed" ELSE "loop"
              /\ sent_count' = IF sent_before THEN sent_count ELSE out.count
              /\ results' = IF out.crashed THEN results
                            ELSE IF sent_before THEN Append(results, skip)
                            ELSE Append(results, out.result)
    /\ idx' = idx + 1
    /\ UNCHANGED <<users, current_utc, earlier>>
    /\ UNCHANGED msgvars

\* one iteration of the for loop
CronUser == /\ pc = "loop"
            /\ idx <= Len(users)
            /\ \E env \in Envs :
                  LET out == TickUser(users[idx], current_utc, sent_count, env)
                  IN  /\ pc' = IF out.crashed THEN "crashed" ELSE "loop"
                      /\ sent_count' = out.count
                      /\ results' = IF out.crashed THEN results
                                    ELSE Append(results, out.result)
            /\ idx' = idx + 1
            /\ UNCHANGED <<users, current_utc, earlier>>
            /\ UNCHANGED msgvars

\* the loop is over: the summary is returned
CronReturn == /\ pc = "loop"
              /\ idx > Len(users)
              /\ pc' = "done"
              /\ UNCHANGED <<users, current_utc, idx, sent_count, results, earlier>>
              /\ UNCHANGED msgvars

\* the request is over (summary or HTTP 500): its locals are gone
CronClose == /\ pc \in {"done", "crashed"}
             /\ pc' = "idle"
             /\ users' = <<>>
             /\ current_utc' = 0
             /\ idx' = 1
             /\ sent_count' = 0
             /\ results' = <<>>
             /\ earlier' = NoRun
             /\ UNCHANGED msgvars

\* the endpoint is invoked once more (a retry of the cron service) while the
\* clock still reads the minute of the run that just ended: a new request,
\* which loads users.json again
CronAgain == /\ pc \in {"done", "crashed"}
             /\ ~earlier.ran
             /\ earlier' = [ran |-> TRUE, utc |-> current_utc, users |-> users,
                            results |-> results]
             /\ users' = data_file
             /\ current_utc' = current_utc
             /\ sent_count' = 0
             /\ idx' = 1
             /\ results' = <<>>
             /\ pc' = "loop"
             /\ UNCHANGED msgvars

Next == ProcessMessage(Emails, Requests)

Spec == Init /\ [][Next]_vars

\* one subscriber asking to add sources by every text
ResolveNext == ProcessMessage({"a@x.io"}, ResolveRequests)

ResolveSpec == Init /\ [][ResolveNext]_vars

\* messages and scheduler runs served one at a time by the one event loop
CronMessage == pc = "idle" /\ ProcessMessage(CronEmails, CronRequests)

CronNext == \/ CronMessage
            \/ CronStart
            \/ CronUser
            \/ CronReturn
            \/ CronClose

CronSpec == Init /\ [][CronNext]_vars

\* two subscribers, and runs that may be invoked twice within a minute
RetryEmails == {"a@x.io", "b@x.io"}

RetryMessage == pc = "idle" /\ ProcessMessage(RetryEmails, CronRequests)

RetryNext == \/ RetryMessage
             \/ CronStart
             \/ CronUser
             \/ CronReturn
             \/ CronAgain
             \/ CronClose

RetrySpec == Init /\ [][RetryNext]_vars

\* two subscribers sending one request of every branch
PairRequests ==
    {Request(Intent("add_source", SrcMissing, <<>>, ""), MsgWith(U1)),
     Request(Intent("confirm_add_source", SrcMissing, <<>>, ""), MsgWith(U1)),
     Request(Intent("remove_source", SourceField("text", <<"i","o">>), <<>>, ""), MsgPlain),
     Request(Intent("change_time", SrcMissing, T1703, ""), MsgPlain),
     Request(Intent("set_timezone", SrcMissing, <<>>, "Asia/Kolkata"), MsgPlain),
     Request(Intent("set_timezone", SrcMissing, <<>>, "Mars/Phobos"), MsgPlain),
     Request(Intent("set_time_and_timezone", SrcMissing, T0800, "America/Los_Angeles"),
             MsgPlain)}
    \cup {Request(Intent(k, SrcMissing, <<>>, ""), MsgPlain) :
             k \in {"view_sources", "done", "unsubscribe", "help"}}

PairNext == ProcessMessage(RetryEmails, PairRequests)

PairSpec == Init /\ [][PairNext]_vars

\* the requests that race with a run: a time that is not due at any instant
\* of the model, a source added, the record deleted
RaceRequests ==
    {Request(Intent("change_time", SrcMissing, T1703, ""), MsgPlain),
     Request(Intent("confirm_add_source", SrcMissing, <<>>, ""), MsgWith(U1)),
     Request(Intent("unsubscribe", SrcMissing, <<>>, ""), MsgPlain)}

\* the first subscriber sends all of them, the second only subscribes and
\* unsubscribes
RaceRequestsOf(email) ==
    IF email = "a@x.io" THEN RaceRequests
    ELSE {r \in RaceRequests : r.intent_data.intent = "unsubscribe"}

\* a message handled by another worker of the deployment: it runs from load
\* to save in one step, at any point of a scheduler run
RaceMessage == \E email \in RetryEmails : \E r \in RaceRequestsOf(email) : Handle(email, r)

RaceNext == \/ RaceMessage
            \/ CronStart
            \/ CronUser
            \/ CronReturn
            \/ CronClose

RaceSpec == Init /\ [][RaceNext]_vars

----------------------------------------------------------------------------
(* Vocabulary of the properties, stated without the operators of the model *)

\* t is HH:MM with 0 <= HH <= 23 and 0 <= MM <= 59
ValidHHMM(t) ==
    /\ Len(t) = 5
    /\ t[3] = ":"
    /\ \A i \in {1, 2, 4, 5} : IsDigit(t[i])
    /\ 10 * DigitValue(t[1]) + DigitValue(t[2]) <= 23
    /\ 10 * DigitValue(t[4]) + DigitValue(t[5]) <= 59

Resolvable(zone) == zone \in DOMAIN TzDatabase

\* the record's local wall clock at the instant utc reads exactly send_time
LocalTimeIsSendTime(rec, utc) ==
    /\ Resolvable(rec.timezone)
    /\ ValidHHMM(rec.send_time)
    /\ LET local == (utc + TzDatabase[rec.timezone]) % 1440
           t     == rec.send_time
       IN  /\ local \div 60 = 10 * DigitValue(t[1]) + DigitValue(t[2])
           /\ local % 60 = 10 * DigitValue(t[4]) + DigitValue(t[5])

\* the latest request was a message of this intent from a subscribed address
Handled(kind) == /\ req.email # ""
                 /\ HasKey(before, req.email)
                 /\ req.intent_data.intent = kind

\* the record of the requesting address before and after the request
OldRecord == GetItem(before, req.email)

NewRecord == GetItem(data_file, req.email)

\* the record a new subscriber gets
FreshRecord(email) == [email |-> email, sources |-> <<>>,
                       timezone |-> "America/Los_Angeles", send_time |-> T0800]

\* the latest request came from an address that had no record
FromStranger == req.email # "" /\ ~HasKey(before, req.email)

\* the scheduler run is over, by its return or by an exception
CronOver == pc \in {"done", "crashed"}

\* the run went into the if branch for this address
TreatedAsDue(email) ==
    \E k \in 1..Len(results) : results[k].email = email /\ results[k].due

\* a collaborator failed while the run served this address
CollaboratorFailed(email) ==
    \E k \in 1..Len(results) :
        /\ results[k].email = email
        /\ results[k].due
        /\ (~results[k].composed \/ ~results[k].delivered \/ results[k].items = 0)

----------------------------------------------------------------------------
(* Properties                                                              *)

\* C1: every persisted record's send_time is a valid HH:MM string, 0 <= hour
\* <= 23 and 0 <= minute <= 59, whatever time strings the intents carried.
\* The code stores any non-empty time string, so this is violated.
C1_SendTimeAlwaysValid ==
    \A i \in 1..Len(data_file) : ValidHHMM(data_file[i].val.send_time)

\* C2: a scheduler run never ends by an exception: it always gets to return
\* its summary.  The code parses send_time outside the try, so this is
\* violated.
C2_TickAlwaysCompletes == pc # "crashed"

\* C3: when a run is over, if two records were due and a collaborator failed
\* for one of them, the other one was served too (its digest was composed and
\* handed to delivery unless its own collaborators failed).  Violated when a
\* record between them ends the run (C2).
C3_FailureIsolation ==
    CronOver =>
        \A i, j \in 1..Len(users) :
            ( /\ i # j
              /\ LocalTimeIsSendTime(users[i].val, current_utc)
              /\ LocalTimeIsSendTime(users[j].val, current_utc)
              /\ CollaboratorFailed(users[i].key) )
            => TreatedAsDue(users[j].key)

\* C4: the sent count a run returns is the number of due users whose digest
\* was composed and delivered.  send_digest swallows the delivery error, so
\* this is violated.
C4_SentCountsDeliveries ==
    pc = "done" =>
        sent_count = Cardinality({k \in 1..Len(results) :
                                     results[k].composed /\ results[k].delivered})

\* C5: every message gets a response: whatever the intent and its fields, the
\* handler ends in a branch that returns one.  set_timezone without a
\* timezone falls off the end of the handler, so this is violated.
C5_AlwaysResponds == req.email # "" => response.kind # "none"

\* C6: for every record the due-check of a run has decided, the run went into
\* the digest branch if and only if the instant, converted to the record's
\* timezone, has the hour and the minute of send_time.
C6_DueCheckExact ==
    \A k \in 1..Len(results) :
        /\ results[k].email = users[k].key
        /\ results[k].due <=> LocalTimeIsSendTime(users[k].val, current_utc)

\* C6 witness: a finished run that served one record and passed over another
\* whose send_time has the same hour and minute, read in another timezone
C6_Witness ==
    /\ pc = "done"
    /\ \E k, j \in 1..Len(results) :
           /\ results[k].due
           /\ ~results[j].due
           /\ users[j].val.send_time = users[k].val.send_time

\* C7: set_time_and_timezone with both fields present and a resolvable
\* timezone writes send_time and timezone in one save; with a field absent or
\* an unresolvable timezone it changes neither and does not save.
C7_SetBothAtomic ==
    Handled("set_time_and_timezone") =>
        LET t == req.intent_data.time
            z == req.intent_data.timezone
        IN  IF t # <<>> /\ z # "" /\ Resolvable(z)
            THEN /\ NewRecord.send_time = t
                 /\ NewRecord.timezone = z
                 /\ saves = 1
            ELSE /\ NewRecord.send_time = OldRecord.send_time
                 /\ NewRecord.timezone = OldRecord.timezone
                 /\ saves = 0

\* C7 witness: a set_time_and_timezone that changed both fields at once
C7_Witness ==
    /\ Handled("set_time_and_timezone")
    /\ response.kind = "set_both"
    /\ NewRecord.send_time # OldRecord.send_time
    /\ NewRecord.timezone # OldRecord.timezone

C9_UrlsUnique ==
    /\ \A n \in 1..Len(data_file) :
           LET sources == data_file[n].val.sources
           IN  \A i, j \in 1..Len(sources) : sources[i].url = sources[j].url => i = j
    /\ (Handled("confirm_add_source") /\ UrlSearch(req.message).found) =>
           LET url == UrlSearch(req.message).url
           IN  (\E i \in 1..Len(OldRecord.sources) : OldRecord.sources[i].url = url) =>
                   /\ response.kind = "already_have"
                   /\ data_file = before
                   /\ saves = 0

\* C9 witness: a url confirmed again while the list holds it and another url
\* that differs from it only in case
C9_Witness ==
    /\ Handled("confirm_add_source")
    /\ response.kind = "already_have"
    /\ UrlSearch(req.message).url = U1
    /\ \E i \in 1..Len(OldRecord.sources) : OldRecord.sources[i].url = U2

\* the source text is, case ignored, a substring of the entry's name or url
TextMatchesEntry(text, entry) ==
    \/ Contains(Lower(text), Lower(entry.name))
    \/ Contains(Lower(text), Lower(entry.url))

\* C10: remove_source with a source text that matches some entry removes the
\* first matching entry of the list and no other, keeps the remaining entries
\* in their order, and names the removed entry in the response.
C10_RemovesFirstMatch ==
    (Handled("remove_source") /\ req.intent_data.source.state = "text") =>
        LET text == req.intent_data.source.text
            old  == OldRecord.sources
        IN  \A i \in 1..Len(old) :
                ( /\ TextMatchesEntry(text, old[i])
                  /\ \A j \in 1..(i - 1) : ~TextMatchesEntry(text, old[j]) )
                => /\ NewRecord.sources =
                         SubSeq(old, 1, i - 1) \o SubSeq(old, i + 1, Len(old))
                   /\ response.kind = "removed"
                   /\ response.text = old[i].name
                   /\ saves = 1

\* C10 witness: of three entries, two match the text and the first of them is
\* not the head of the list; it was removed
C10_Witness ==
    /\ Handled("remove_source")
    /\ req.intent_data.source.state = "text"
    /\ response.kind = "removed"
    /\ Len(OldRecord.sources) = 3
    /\ ~TextMatchesEntry(req.intent_data.source.text, OldRecord.sources[1])
    /\ TextMatchesEntry(req.intent_data.source.text, OldRecord.sources[2])
    /\ TextMatchesEntry(req.intent_data.source.text, OldRecord.sources[3])

\* the address e has a record after the latest request exactly when that
\* request created its record (created says which addresses get one on their
\* first message) or left the record it had in place
RecordFollows(e, created) ==
    HasKey(data_file, e) <=>
        IF e = req.email
        THEN \/ HasKey(before, e) /\ req.intent_data.intent # "unsubscribe"
             \/ ~HasKey(before, e) /\ created
        ELSE HasKey(before, e)

\* C11 as stated: an unsubscribe deletes the sender's record; the next message
\* from that address, whatever it says, creates a fresh default record; and at
\* every point an address has a record if and only if it has sent a message
\* and has not unsubscribed since its record was last created.  An address
\* the validator rejects sends messages and never gets a record, so this is
\* violated.
C11_RecordIffSentAndNotUnsubscribed ==
    /\ Handled("unsubscribe") => ~HasKey(data_file, req.email) /\ saves = 1
    /\ FromStranger => /\ HasKey(data_file, req.email)
                       /\ NewRecord = FreshRecord(req.email)
    /\ \A e \in Addresses : RecordFollows(e, TRUE)

\* C11, amended: an unsubscribe deletes the sender's record; the next message
\* from that address, whatever it says, creates a fresh default record, so the
\* sources, send_time and timezone held before never come back; and at every
\* point an address that passes validation has a record if and only if it has
\* sent a message and has not unsubscribed since its record was last created
\* (an address that does not pass never has one).
C11_UnsubscribeThenFresh ==
    /\ Handled("unsubscribe") => ~HasKey(data_file, req.email) /\ saves = 1
    /\ (FromStranger /\ ValidEmail(req.email)) =>
           /\ HasKey(data_file, req.email)
           /\ NewRecord = FreshRecord(req.email)
    /\ \A e \in Addresses : RecordFollows(e, ValidEmail(e))

\* an address unsubscribed, and its next message, a confirmation carrying a
\* url, left only the default record
C11_Witness ==
    /\ FromStranger
    /\ req.email \in unsubscribed
    /\ req.intent_data.intent = "confirm_add_source"
    /\ req.message = MsgWith(U1)
    /\ NewRecord = FreshRecord(req.email)

\* C12: the first message from a valid address that has no record creates and
\* persists the default record (no sources, America/Los_Angeles, 08:00) and
\* is answered by the welcome, whatever the message and its intent are; the
\* intent is not applied, so the file is the loaded one plus that record.
C12_FirstMessageCreatesDefault ==
    (FromStranger /\ ValidEmail(req.email)) =>
        /\ data_file = Append(before, [key |-> req.email, val |-> FreshRecord(req.email)])
        /\ response.kind = "welcome"
        /\ saves = 1

\* a first message asking for 17:03 in Kolkata is answered by the welcome and
\* leaves the default time and zone
C12_Witness ==
    /\ FromStranger
    /\ ValidEmail(req.email)
    /\ req.intent_data.intent = "set_time_and_timezone"
    /\ req.intent_data.time = T1703
    /\ req.intent_data.timezone = "Asia/Kolkata"
    /\ response.kind = "welcome"
    /\ NewRecord.send_time = T0800
    /\ NewRecord.timezone = "America/Los_Angeles"

\* the responses of the branches that change a record: creation, a new url
\* confirmed, a source removed, the time, the zone or both set, unsubscribe
ChangingBranches == {"welcome", "added", "removed", "changed_time",
                     "set_timezone", "set_both", "unsubscribed"}

\* C13: one message writes the store at most once: exactly once on each
\* branch that changes a record, and not at all, the store staying as it was
\* loaded, on add_source, view_sources, done, help or an unrecognized intent
\* and on every failure or already-present branch.
C13_AtMostOneSave ==
    req.email # "" =>
        /\ saves \in {0, 1}
        /\ saves = 1 <=> response.kind \in ChangingBranches
        /\ saves = 0 => data_file = before
        /\ \A k \in {"add_source", "view_sources", "done", "help", "chitchat"} :
               Handled(k) => saves = 0

\* a confirmation of a url the list already has: answered, nothing written
C13_Witness ==
    /\ Handled("confirm_add_source")
    /\ response.kind = "already_have"
    /\ saves = 0
    /\ data_file = before
    /\ Len(OldRecord.sources) = 2

\* the urls of a source list
UrlsOf(sources) == {sources[i].url : i \in 1..Len(sources)}

\* C14: an add_source intent never changes the source list nor anything else
\* that is persisted, whether or not its text resolves; when it resolves, the
\* answer is only a confirmation prompt carrying the candidate url.  A url
\* enters a list only through confirm_add_source.
C14_AddSourceOnlyProposes ==
    /\ Handled("add_source") =>
           /\ data_file = before
           /\ saves = 0
           /\ response.kind \in {"confirm_url", "could_not_parse", "error"}
           /\ response.kind = "confirm_url" =>
                  StartsWithAt(response.text, <<"h","t","t","p">>, 1)
    /\ \A i \in 1..Len(data_file) :
           LET e == data_file[i].key
               was == IF HasKey(before, e) THEN UrlsOf(GetItem(before, e).sources) ELSE {}
           IN  UrlsOf(data_file[i].val.sources) \ was # {} =>
                   /\ req.email = e
                   /\ Handled("confirm_add_source")

\* an add_source whose message carries a url the list does not have: the url
\* is proposed and the list stays as it was
C14_Witness ==
    /\ Handled("add_source")
    /\ req.message = MsgWith(U3)
    /\ response.kind = "confirm_url"
    /\ response.text = U3
    /\ U3 \notin UrlsOf(NewRecord.sources)
    /\ NewRecord.sources # <<>>

\* C17: remove_source changes the list only when the intent carries a source
\* text that matches some entry: when the text matches no entry, or the
\* intent carries no source text (the key is absent), the answer is 'not
\* found', the list is unchanged and the store is not written.  The code
\* reads an absent source as the empty string, which is a substring of every
\* name, so this is violated.
C17_RemoveNeedsMatchingText ==
    LET source == req.intent_data.source
        unmatched ==
            \/ source.state = "missing"
            \/ /\ source.state = "text"
               /\ \A i \in 1..Len(OldRecord.sources) :
                      ~TextMatchesEntry(source.text, OldRecord.sources[i])
    IN  (Handled("remove_source") /\ unmatched) =>
            /\ response.kind = "not_found"
            /\ data_file = before
            /\ saves = 0

\* C18: confirm_add_source is stateless: what it does is decided by the url
\* literal of the raw confirmation message and the sender's current record
\* alone, whatever came before it (an add_source or not, whichever candidate
\* was proposed); no pending-confirmation value is persisted; and a
\* confirmation whose message has no url literal fails and changes nothing.
C18_ConfirmIsStateless ==
    /\ Handled("confirm_add_source") =>
           LET literal == UrlSearch(req.message)
           IN  IF ~literal.found
               THEN /\ response.kind = "no_url"
                    /\ data_file = before
                    /\ saves = 0
               ELSE IF literal.url \in UrlsOf(OldRecord.sources)
               THEN /\ response.kind = "already_have"
                    /\ data_file = before
                    /\ saves = 0
               ELSE /\ response.kind = "added"
                    /\ saves = 1
                    /\ NewRecord = [OldRecord EXCEPT !.sources =
                           Append(@, [name |-> response.text, url |-> literal.url])]
    /\ \A i \in 1..Len(data_file) :
           DOMAIN data_file[i].val = {"email", "sources", "timezone", "send_time"}

\* a confirmation sent to a record that is still the default one adds the url
\* of its message
C18_Witness ==
    /\ Handled("confirm_add_source")
    /\ OldRecord = FreshRecord(req.email)
    /\ req.message = MsgWith(U2)
    /\ response.kind = "added"
    /\ UrlsOf(NewRecord.sources) = {U2}

\* the text lower-cased and with the stop words stripped
StrippedText(text) == Strip(SubStopWords(Strip(Lower(text)), 1))

\* the url of the first entry of the table whose name is a substring of t,
\* <<>> when there is none
FirstTableUrl(t) ==
    LET named(k) == Contains(common_sites[k][1], t)
    IN  IF \E k \in 1..Len(common_sites) : named(k)
        THEN common_sites[CHOOSE k \in 1..Len(common_sites) :
                              named(k) /\ \A j \in 1..(k - 1) : ~named(j)][2]
        ELSE <<>>

\* the add_source just handled proposed this url
Proposed(url) == response.kind = "confirm_url" /\ response.text = url

\* C16: text-to-url resolution follows a fixed priority: (1) the first
\* absolute url literal of the text, verbatim; else, on the text lower-cased
\* and stripped of stop words, (2) a text containing '.' gives https://<text>,
\* else (3) the first table entry whose name is a substring of the text gives
\* its url, else (4) a non-empty text gives https://<text without
\* spaces>.com, else (5) none.  "techcrunch" gives https://techcrunch.com,
\* "example.org" gives https://example.org, "" gives none, and none is given
\* only when there is no url literal and the stripped text is empty.
C16_ResolutionPriority ==
    (Handled("add_source") /\ req.intent_data.source.state = "text") =>
        LET text    == req.intent_data.source.text
            literal == UrlSearch(text)
            t       == StrippedText(text)
            https   == <<"h","t","t","p","s",":","/","/">>
        IN  /\ IF literal.found THEN Proposed(literal.url)
               ELSE IF \E i \in 1..Len(t) : t[i] = "." THEN Proposed(https \o t)
               ELSE IF FirstTableUrl(t) # <<>> THEN Proposed(FirstTableUrl(t))
               ELSE IF t # <<>>
                    THEN Proposed(https \o SelectSeq(t, LAMBDA c : c # " ")
                                        \o <<".","c","o","m">>)
               ELSE response.kind = "could_not_parse"
            /\ text = WTechcrunch =>
                   Proposed(https \o WTechcrunch \o <<".","c","o","m">>)
            /\ text = WExampleOrg => Proposed(https \o WExampleOrg)
            /\ text = <<>> => response.kind = "could_not_parse"
            /\ response.kind = "could_not_parse" => (~literal.found /\ t = <<>>)

\* a text naming a site of the table and a domain: the dot decides, before
\* the table is looked at
C16_Witness ==
    /\ Handled("add_source")
    /\ req.intent_data.source.text = WTechcrunch \o <<" ">> \o WExampleOrg
    /\ response.kind = "confirm_url"
    /\ response.text = <<"h","t","t","p","s",":","/","/">>
                           \o WTechcrunch \o <<" ">> \o WExampleOrg

\* C15: the scheduler keeps no memory of past sends: when the endpoint is
\* invoked twice while a user's local time is still the same due minute and
\* the records are unchanged, the second run finds the same file and goes
\* into the compose-and-send branch for every address the first run did:
\* nothing the first run wrote holds the second back.
C15_NoMemoryOfPastSends ==
    (CronOver /\ earlier.ran) =>
        /\ users = earlier.users
        /\ current_utc = earlier.utc
        /\ \A k \in 1..Len(earlier.results) :
               earlier.results[k].due =>
                   /\ k <= Len(results)
                   /\ results[k].email = earlier.results[k].email
                   /\ results[k].due

\* both runs of the same minute delivered a digest to the same address, and
\* both counted it
C15_Witness ==
    /\ pc = "done"
    /\ earlier.ran
    /\ \E k \in 1..Len(results) :
           /\ earlier.results[k].email = results[k].email
           /\ earlier.results[k].delivered
           /\ results[k].delivered
    /\ earlier.results[Len(earlier.results)].counted
    /\ sent_count > 0

\* the number of content items a digest composed from this record has when
\* the scraper works: one per source, the default sources when it has none
ItemsOf(rec) == IF rec.sources # <<>> THEN Len(rec.sources) ELSE Len(default_sources)

\* what the run has done so far follows from the dict it loaded at its start
FromSnapshot ==
    pc # "idle" =>
        \A k \in 1..Len(results) :
            /\ k <= Len(users)
            /\ results[k].email = users[k].key
            /\ results[k].due <=> LocalTimeIsSendTime(users[k].val, current_utc)
            /\ results[k].composed => results[k].items \in {0, ItemsOf(users[k].val)}

\* a step of the run leaves users.json alone, and between its start and its
\* end the run keeps the dict and the instant it started with
RunNeverWrites ==
    /\ (pc' # pc \/ idx' # idx) => data_file' = data_file
    /\ (pc = "loop" /\ pc' # "idle") => (users' = users /\ current_utc' = current_utc)

\* C19: a scheduler run works from the snapshot of the store taken once at
\* its start and never writes the store: its due decisions and the sources
\* it uses come from that snapshot, so a message persisted while the run is
\* in progress does not alter whom the run sends to, and the run never
\* overwrites or reverts what that message wrote.
C19_RunUsesSnapshot == []FromSnapshot /\ [][RunNeverWrites]_vars

\* while a run was in progress the first subscriber unsubscribed: the run
\* still composed the digest from the record it had loaded and delivered it,
\* and the file still has no record of that address
C19_Witness ==
    /\ pc = "done"
    /\ \E k \in 1..Len(results) :
           /\ results[k].email = "a@x.io"
           /\ results[k].delivered
           /\ users[k].val.sources # <<>>
           /\ results[k].items = ItemsOf(users[k].val)
    /\ ~HasKey(data_file, "a@x.io")
    /\ HasKey(data_file, "b@x.io")

====
